---------------------------- MODULE Spec2Model ----------------------------
(***************************************************************************)
(* A model of the FRACTIS testnet node:                                    *)
(*   - ConsensusManager (src/src/node/consensus.rs): validate_transaction  *)
(*     with its signature check, freshness check and validator quorum;     *)
(*   - Node (src/src/node/network.rs): start() with the stake check, the   *)
(*     listener, the sweep task, the bootstrap phase, the accept loop and  *)
(*     the per-connection handlers, all registering into `peers`;          *)
(*     shutdown() and the dropping of start() by its caller; the insert    *)
(*     and sweep calls taken apart under the write lock of `peers`;        *)
(*   - the stake program (src/src/program/stake.rs): CreateStake and       *)
(*     Withdraw on one stake account, lamports on a reduced scale.         *)
(* Time is a discrete clock `now`.  Types the source uses but does not     *)
(* define (PeerInfo, Validator, Transaction) are modelled from spec.md.    *)
(***************************************************************************)
EXTENDS Integers, Sequences, FiniteSets

(* ------------------------------ bounds -------------------------------- *)
MaxTime == 2          \* the clock runs 0..MaxTime
MaxValidators == 4    \* size of the validator set
MaxTimeout == 2       \* consensus_timeout values 0..MaxTimeout
MaxSeeds == 2         \* length of config.bootstrap_nodes
MaxStake == 1         \* config.min_stake; balances range over 0..MaxStake + 1
MaxPending == 2       \* connection tasks spawned and not yet run
MaxShutdownCalls == 2 \* calls of shutdown()
MaxCalls == 3         \* calls that take the write lock of the registry
MaxLamports == 4      \* lamports a wallet starts with: 0..MaxLamports
MaxLock == 1          \* lock_period values -1..MaxLock
RentLamports == 1     \* rent.minimum_balance(space) of a stake account

Times == 0..MaxTime
Addrs == {"A", "B"}   \* the socket addresses of the peers

(* ------------------------- program constants -------------------------- *)
MAX_RECONNECT_ATTEMPTS == 3
ShutdownChannelCapacity == 1   \* mpsc::channel(1)
\* The stake program, on the model's scale of lamports:
MIN_STAKE_AMOUNT == 2          \* the 10_000_000_000 of process_create_stake
U64Modulus == 8                \* u64 values are 0..U64Modulus - 1

VARIABLES
    now,                \* the monotonic clock (Instant::now())
    \* ConsensusManager
    validators,         \* Vec<Validator>: the sequence of validator ids
    consensus_timeout,  \* Duration
    last_consensus,     \* Instant
    last_block_hash,    \* Hash
    cpc,                \* position of validate_transaction: idle | asking | done
    tx,                 \* the transaction under evaluation
    call_time,          \* the clock when validate_transaction was called
    asked,              \* answers of the validators asked so far, in order
    confirmations,      \* the local tally of get_validator_confirmations
    result,             \* the bool validate_transaction returned
    reason,             \* the return site of that result
    \* Node
    min_stake,          \* config.min_stake
    bootstrap_nodes,    \* config.bootstrap_nodes
    ledger_balance,     \* the balance the ledger holds for the node's key
    npc,                \* position of start()
    start_result,       \* what start() returned, "none" while it runs
    bound,              \* the listener is bound
    sweep_spawned,      \* the sweep task was spawned
    peers,              \* the registry: a set of (addr, PeerInfo) entries
    seed_idx,           \* position of the for loop over bootstrap_nodes
    attempts,           \* the local `attempts` of the current seed
    counted_seed,       \* the seed position the next three counters are about
    conn_fail,          \* its TcpStream::connect calls that failed
    setup_fail,         \* its handle_outbound_connection calls that failed
    inserted,           \* its inserts into the registry
    seed_outcome,       \* per seed position, during the bootstrap: pending |
                        \* registered | unreachable (every connect failed) |
                        \* abandoned
    tasks,              \* spawned connection tasks not yet run, per address
    shutdown_queue,     \* messages held by the mpsc channel behind `shutdown`
    shutdown_calls,     \* the calls of shutdown() that have returned Ok(())
    \* the write lock of `peers`, call by call
    write_lock,         \* the call that holds peers.write(), or NoCall
    to_visit,           \* the entries retain() has not visited yet
    lock_order,         \* the calls in the order they took the write lock
    peers_at_start,     \* the registry before the first of these calls
    \* the stake program and the accounts it is called on
    wallet_lamports,    \* lamports of each staker's system account
    stake_owner,        \* AccountInfo::owner of the stake account
    stake_lamports,     \* lamports of the stake account
    stake_data,         \* the data of the stake account
    stake_result        \* the last instruction and what it returned

consensusVars == <<validators, consensus_timeout, last_consensus, last_block_hash,
                   cpc, tx, call_time, asked, confirmations, result, reason>>
nodeVars == <<min_stake, bootstrap_nodes, ledger_balance, npc, start_result, bound,
              sweep_spawned, peers, seed_idx, attempts, counted_seed, conn_fail,
              setup_fail, inserted, seed_outcome, tasks, shutdown_queue,
              shutdown_calls, write_lock, to_visit, lock_order, peers_at_start>>
shutdownVars == <<shutdown_queue, shutdown_calls>>
lockVars == <<write_lock, to_visit, lock_order, peers_at_start>>
stakeVars == <<wallet_lamports, stake_owner, stake_lamports, stake_data,
               stake_result>>
vars == <<now, consensusVars, nodeVars, stakeVars>>

(* ------------------------------ the clock ----------------------------- *)
Tick ==
    /\ now < MaxTime
    /\ now' = now + 1
    /\ UNCHANGED <<consensusVars, nodeVars, stakeVars>>

(***************************************************************************)
(*                           ConsensusManager                              *)
(***************************************************************************)
Transactions == [sig_ok : BOOLEAN, timestamp : Times]
NoTx == [sig_ok |-> FALSE, timestamp |-> 0]

\* ConsensusManager::new(timeout), with the validator set the struct holds.
ConsensusNew(n, timeout) ==
    /\ validators = [i \in 1..n |-> i]
    /\ consensus_timeout = timeout
    /\ last_consensus = now
    /\ last_block_hash = 0
    /\ cpc = "idle"
    /\ tx = NoTx
    /\ call_time = 0
    /\ asked = <<>>
    /\ confirmations = 0
    /\ result = FALSE
    /\ reason = "none"

\* Transaction::verify_signature(), as verify_signature forwards it.
VerifySignature(t) == t.sig_ok

\* Instant::duration_since saturates to zero for a later instant.
DurationSince(later, earlier) == IF later >= earlier THEN later - earlier ELSE 0

VerifyTimestamp_accept_at_timeout(t, at) ==
    DurationSince(at, t.timestamp) <= consensus_timeout

\* verify_timestamp: transaction_age < self.consensus_timeout
VerifyTimestamp(t, at) ==
    DurationSince(at, t.timestamp) < consensus_timeout

QuorumReached_non_strict(c, n) == c >= (n * 2) \div 3

\* confirmations > (self.validators.len() * 2 / 3)
QuorumReached(c, n) == c > (n * 2) \div 3

\* The last expression of validate_transaction, with its return site.
Decide(c) ==
    /\ cpc' = "done"
    /\ result' = QuorumReached(c, Len(validators))
    /\ reason' = IF QuorumReached(c, Len(validators))
                 THEN "Accepted" ELSE "QuorumNotReached"

RejectsAtSignature_dropped(t) == FALSE

\* validate_transaction's first check: if !self.verify_signature(..) return false
RejectsAtSignature(t) == ~VerifySignature(t)

\* validate_transaction from the call to its first suspension point (the
\* first validator's answer) or, when it does not get there, to its return.
ValidateBegin ==
    /\ cpc \in {"idle", "done"}
    /\ \E t \in Transactions :
         /\ tx' = t
         /\ call_time' = now
         /\ asked' = <<>>
         /\ confirmations' = 0
         /\ IF RejectsAtSignature(t)
            THEN /\ cpc' = "done"
                 /\ result' = FALSE
                 /\ reason' = "BadSignature"
            ELSE IF ~VerifyTimestamp(t, now)
            THEN /\ cpc' = "done"
                 /\ result' = FALSE
                 /\ reason' = "StaleTransaction"
            ELSE IF Len(validators) = 0
            THEN Decide(0)
            ELSE /\ cpc' = "asking"
                 /\ UNCHANGED <<result, reason>>
    /\ UNCHANGED <<now, validators, consensus_timeout, last_consensus,
                   last_block_hash, nodeVars, stakeVars>>

AllAsked_stops_at_rejection(k, n, ans) == k = n \/ ~ans

\* for validator in &self.validators: the loop ends when the k answers
\* received are those of all n validators, whatever the answers were.
AllAsked(k, n, ans) == k = n

\* One iteration of get_validator_confirmations: the next validator answers.
ValidatorAnswers ==
    /\ cpc = "asking"
    /\ \E ans \in BOOLEAN :
         LET c == IF ans THEN confirmations + 1 ELSE confirmations
         IN  /\ asked' = Append(asked, ans)
             /\ confirmations' = c
             /\ IF AllAsked(Len(asked) + 1, Len(validators), ans)
                THEN Decide(c)
                ELSE UNCHANGED <<cpc, result, reason>>
    /\ UNCHANGED <<now, validators, consensus_timeout, last_consensus,
                   last_block_hash, tx, call_time, nodeVars, stakeVars>>

(***************************************************************************)
(*                                 Node                                    *)
(***************************************************************************)
SeedLists == UNION {[1..n -> Addrs] : n \in 0..MaxSeeds}

\* No call holds peers.write().
NoCall == [op |-> "none", addr |-> "none"]

\* Node::new(config): an empty registry, nothing started.
NodeNew(seeds, stake, balance) ==
    /\ bootstrap_nodes = seeds
    /\ min_stake = stake
    /\ ledger_balance = balance
    /\ npc = "new"
    /\ start_result = "none"
    /\ bound = FALSE
    /\ sweep_spawned = FALSE
    /\ peers = {}
    /\ seed_idx = 0
    /\ attempts = 0
    /\ counted_seed = 0
    /\ conn_fail = 0
    /\ setup_fail = 0
    /\ inserted = 0
    /\ seed_outcome = [i \in 1..Len(seeds) |-> "pending"]
    /\ tasks = [a \in Addrs |-> 0]
    /\ shutdown_queue = 0
    /\ shutdown_calls = 0
    /\ write_lock = NoCall
    /\ to_visit = {}
    /\ lock_order = <<>>
    /\ peers_at_start = {}

\* PeerInfo::new(addr): a live entry for addr, last active now.
PeerInfoNew(a, at) == [addr |-> a, connected |-> TRUE, last_activity |-> at]

\* PeerInfo::is_connected()
IsConnected(e) == e.connected

Insert_keeps_old(ps, a, info) == ps \cup {info}

\* HashMap::insert(addr, info): the entry of addr, if any, is replaced.
Insert(ps, a, info) == {e \in ps : e.addr # a} \cup {info}

Retain_inverted(ps) == {e \in ps : ~IsConnected(e)}

\* peers.retain(|_, peer| peer.is_connected())
Retain(ps) == {e \in ps : IsConnected(e)}

StakeSufficient_unchecked(balance, stake) == TRUE

\* verify_stake: Err("Insufficient stake amount") if balance < min_stake
StakeSufficient(balance, stake) == ~(balance < stake)

\* start(): self.verify_stake().await?
VerifyStake ==
    /\ npc = "new"
    /\ \E rpc \in {"ok", "transport_error"} :
         IF rpc = "transport_error"
         THEN /\ npc' = "failed"
              /\ start_result' = "rpc_error"
         ELSE IF StakeSufficient(ledger_balance, min_stake)
         THEN /\ npc' = "bind"
              /\ UNCHANGED start_result
         ELSE /\ npc' = "failed"
              /\ start_result' = "insufficient_stake"
    /\ UNCHANGED <<now, consensusVars, stakeVars, shutdownVars, lockVars,
                   min_stake, bootstrap_nodes, ledger_balance,
                   bound, sweep_spawned, peers, seed_idx, attempts, counted_seed,
                   conn_fail, setup_fail, inserted, seed_outcome, tasks>>

\* The for loop of connect_to_bootstrap_nodes takes the seed at position i
\* (attempts = 0, which is below MAX_RECONNECT_ATTEMPTS), or is over past
\* the last seed.
EnterSeed(i) ==
    /\ seed_idx' = i
    /\ attempts' = 0
    /\ npc' = IF i <= Len(bootstrap_nodes) THEN "connect" ELSE "bootstrapped"

\* The while loop of the current seed ends, by break or by its condition.
LeaveSeed(outcome) ==
    /\ seed_outcome' = [seed_outcome EXCEPT ![seed_idx] = outcome]
    /\ EnterSeed(seed_idx + 1)

SweepSpawnedOn_before_bind(ok) == TRUE

\* tokio::spawn of the sweep loop comes after the `?` of the bind: it is
\* reached only when the bind succeeded.
SweepSpawnedOn(ok) == ok

\* start(): TcpListener::bind(..)?, then tokio::spawn of the sweep loop, then
\* connect_to_bootstrap_nodes up to its first connect.
Bind ==
    /\ npc = "bind"
    /\ \E ok \in BOOLEAN :
         /\ sweep_spawned' = SweepSpawnedOn(ok)
         /\ IF ok
            THEN /\ bound' = TRUE
                 /\ EnterSeed(1)
                 /\ UNCHANGED start_result
            ELSE /\ npc' = "failed"
                 /\ start_result' = "bind_error"
                 /\ UNCHANGED <<bound, seed_idx, attempts>>
    /\ UNCHANGED <<now, consensusVars, stakeVars, shutdownVars, lockVars,
                   min_stake, bootstrap_nodes, ledger_balance,
                   peers, counted_seed, conn_fail, setup_fail, inserted,
                   seed_outcome, tasks>>

WhileAttempts_off_by_one(a) == a <= MAX_RECONNECT_ATTEMPTS

\* while attempts < MAX_RECONNECT_ATTEMPTS
WhileAttempts(a) == a < MAX_RECONNECT_ATTEMPTS

AttemptsAfterFailure_not_counted(a) == a

\* attempts += 1
AttemptsAfterFailure(a) == a + 1

\* The counters of the current seed before one more attempt is counted: they
\* start from zero at the seed's first attempt.  A counter stops at
\* MAX_RECONNECT_ATTEMPTS + 1, which the loop never reaches.
Counted(c) == IF counted_seed = seed_idx THEN c ELSE 0
Bump(c) == IF Counted(c) <= MAX_RECONNECT_ATTEMPTS THEN Counted(c) + 1 ELSE Counted(c)

BreaksOnSuccess_missing == FALSE

\* Ok(stream) arm: when handle_outbound_connection returned Ok the while
\* loop of the seed is left by `break`.
BreaksOnSuccess == TRUE

ConnectOutcomes == {"connect_err", "peer_addr_err", "set_nodelay_err",
                    "set_tcp_keepalive_err", "ok"}

\* One TcpStream::connect(node).await of connect_to_bootstrap_nodes with what
\* follows it up to the next suspension point; handle_outbound_connection has
\* no suspension point of its own.
BootstrapConnect ==
    /\ npc = "connect"
    /\ counted_seed' = seed_idx
    /\ \E r \in ConnectOutcomes :
         CASE r = "connect_err" ->
                /\ conn_fail' = Bump(conn_fail)
                /\ setup_fail' = Counted(setup_fail)
                /\ inserted' = Counted(inserted)
                /\ IF WhileAttempts(AttemptsAfterFailure(attempts))
                   THEN /\ attempts' = AttemptsAfterFailure(attempts)
                        /\ npc' = "sleep"
                        /\ UNCHANGED <<seed_idx, seed_outcome>>
                   ELSE LeaveSeed(IF Counted(setup_fail) = 0
                                  THEN "unreachable" ELSE "abandoned")
                /\ UNCHANGED peers
           [] r \in {"peer_addr_err", "set_nodelay_err", "set_tcp_keepalive_err"} ->
                /\ conn_fail' = Counted(conn_fail)
                /\ setup_fail' = Bump(setup_fail)
                /\ inserted' = Counted(inserted)
                /\ attempts' = AttemptsAfterFailure(attempts)
                /\ npc' = "sleep"
                /\ UNCHANGED <<seed_idx, seed_outcome, peers>>
           [] r = "ok" ->
                /\ conn_fail' = Counted(conn_fail)
                /\ setup_fail' = Counted(setup_fail)
                /\ inserted' = Bump(inserted)
                /\ peers' = Insert(peers, bootstrap_nodes[seed_idx],
                                   PeerInfoNew(bootstrap_nodes[seed_idx], now))
                /\ IF BreaksOnSuccess
                   THEN LeaveSeed("registered")
                   ELSE /\ npc' = "connect"
                        /\ UNCHANGED <<seed_idx, attempts, seed_outcome>>
    /\ UNCHANGED <<now, consensusVars, stakeVars, shutdownVars, lockVars,
                   min_stake, bootstrap_nodes, ledger_balance,
                   start_result, bound, sweep_spawned, tasks>>

\* sleep(RECONNECT_DELAY).await is over: the while condition is read again.
BootstrapWake ==
    /\ npc = "sleep"
    /\ IF WhileAttempts(attempts)
       THEN /\ npc' = "connect"
            /\ UNCHANGED <<seed_idx, attempts, seed_outcome>>
       ELSE LeaveSeed("abandoned")
    /\ UNCHANGED <<now, consensusVars, stakeVars, shutdownVars, lockVars,
                   min_stake, bootstrap_nodes, ledger_balance,
                   start_result, bound, sweep_spawned, peers, counted_seed,
                   conn_fail, setup_fail, inserted, tasks>>

\* connect_to_bootstrap_nodes returns Ok(()): its locals, and the counts kept
\* of its attempts, are dropped, and start() enters the accept loop.
BootstrapReturns ==
    /\ npc = "bootstrapped"
    /\ npc' = "accept"
    /\ attempts' = 0
    /\ counted_seed' = 0
    /\ conn_fail' = 0
    /\ setup_fail' = 0
    /\ inserted' = 0
    /\ seed_outcome' = <<>>
    /\ UNCHANGED <<now, consensusVars, stakeVars, shutdownVars, lockVars,
                   min_stake, bootstrap_nodes, ledger_balance,
                   start_result, bound, sweep_spawned, peers, seed_idx, tasks>>

\* The number of spawned connection tasks that have not run yet.
RECURSIVE Pending(_, _)
Pending(t, as) ==
    IF as = {} THEN 0
    ELSE LET a == CHOOSE x \in as : TRUE IN t[a] + Pending(t, as \ {a})

\* listener.accept() returns a connection: its task is spawned.
AcceptOk(a) ==
    /\ npc = "accept"
    /\ Pending(tasks, Addrs) < MaxPending
    /\ tasks' = [tasks EXCEPT ![a] = @ + 1]
    /\ UNCHANGED <<now, consensusVars, stakeVars, shutdownVars, lockVars,
                   min_stake, bootstrap_nodes, ledger_balance,
                   npc, start_result, bound, sweep_spawned, peers, seed_idx,
                   attempts, counted_seed, conn_fail, setup_fail, inserted,
                   seed_outcome>>

OnAcceptErr_fatal == "failed"

\* The Err(e) arm of the accept loop: error!(..), then sleep(1s).await; the
\* loop goes on.
OnAcceptErr == "accept_backoff"

\* listener.accept() returns an error: the loop sleeps one second.
AcceptErr ==
    /\ npc = "accept"
    /\ npc' = OnAcceptErr
    /\ UNCHANGED <<now, consensusVars, stakeVars, shutdownVars, lockVars,
                   min_stake, bootstrap_nodes, ledger_balance,
                   start_result, bound, sweep_spawned, peers, seed_idx, attempts,
                   counted_seed, conn_fail, setup_fail, inserted, seed_outcome,
                   tasks>>

\* sleep(Duration::from_secs(1)).await is over: the loop selects again.
AcceptBackoffOver ==
    /\ npc = "accept_backoff"
    /\ npc' = "accept"
    /\ UNCHANGED <<now, consensusVars, stakeVars, shutdownVars, lockVars,
                   min_stake, bootstrap_nodes, ledger_balance,
                   start_result, bound, sweep_spawned, peers, seed_idx, attempts,
                   counted_seed, conn_fail, setup_fail, inserted, seed_outcome,
                   tasks>>

SetupCompleted_insert_first(r) == TRUE

\* Each step of the connection setup ends in `?`: an Err returns from the
\* handler before the insert is reached.
SetupCompleted(r) == r = "ok"

SetupOutcomes == {"set_nodelay_err", "set_tcp_keepalive_err", "ok"}

\* handle_connection for a connection from a whose setup ends in r.
HandleConnectionGives(a, r) ==
    /\ tasks[a] > 0
    /\ tasks' = [tasks EXCEPT ![a] = @ - 1]
    /\ IF SetupCompleted(r)
       THEN peers' = Insert(peers, a, PeerInfoNew(a, now))
       ELSE UNCHANGED peers

\* A spawned connection task runs handle_connection, which has no suspension
\* point: it registers the peer, or fails at one of the socket options.
HandleConnection(a) ==
    /\ \E r \in SetupOutcomes : HandleConnectionGives(a, r)
    /\ UNCHANGED <<now, consensusVars, stakeVars, shutdownVars, lockVars,
                   min_stake, bootstrap_nodes, ledger_balance,
                   npc, start_result, bound, sweep_spawned, seed_idx, attempts,
                   counted_seed, conn_fail, setup_fail, inserted, seed_outcome>>

SweepRuns_after_bootstrap(spawned, pc) ==
    spawned /\ pc \in {"accept", "accept_backoff"}

\* The sweep loop is a task of its own, spawned before the bootstrap phase:
\* loop { sleep(60s).await; cleanup_disconnected_peers(..).await } runs
\* wherever start() is.
SweepRuns(spawned, pc) == spawned

\* The sweep task wakes from its sleep and runs cleanup_disconnected_peers.
CleanupDisconnectedPeers ==
    /\ SweepRuns(sweep_spawned, npc)
    /\ peers' = Retain(peers)
    /\ UNCHANGED <<now, consensusVars, stakeVars, shutdownVars, lockVars,
                   min_stake, bootstrap_nodes, ledger_balance,
                   npc, start_result, bound, sweep_spawned, seed_idx, attempts,
                   counted_seed, conn_fail, setup_fail, inserted, seed_outcome,
                   tasks>>

\* The connection of a registered peer ends: its connection-state turns false.
PeerDisconnects(a) ==
    /\ \E e \in peers :
         /\ e.addr = a
         /\ e.connected
         /\ peers' = (peers \ {e}) \cup {[e EXCEPT !.connected = FALSE]}
    /\ UNCHANGED <<now, consensusVars, stakeVars, shutdownVars, lockVars,
                   min_stake, bootstrap_nodes, ledger_balance,
                   npc, start_result, bound, sweep_spawned, seed_idx, attempts,
                   counted_seed, conn_fail, setup_fail, inserted, seed_outcome,
                   tasks>>

(***************************************************************************)
(*                     The stake program (program/stake.rs)                *)
(***************************************************************************)
Wallets == {"S1", "S2"}          \* the keys of the stakers' system accounts
Amounts == 0..(U64Modulus - 1)   \* u64
LockPeriods == (-1)..MaxLock     \* i64: negative, zero, positive

\* The data of an account that does not deserialize as a StakeAccount.
NoStakeData == [decodable |-> FALSE, owner |-> "none", amount |-> 0,
                locked_until |-> 0, is_active |-> FALSE]

\* struct StakeAccount, serialized in the data of an account.
StakeAccount(o, a, l, act) ==
    [decodable |-> TRUE, owner |-> o, amount |-> a, locked_until |-> l,
     is_active |-> act]

\* The instruction instr returned res: Ok or the name of a ProgramError.
Returned(instr, res) == [instr |-> instr, res |-> res]
NoInstruction == Returned("none", "none")

\* No stake account, no wallet funded, no instruction processed.
StakeIdle ==
    /\ wallet_lamports = [w \in Wallets |-> 0]
    /\ stake_owner = "system"
    /\ stake_lamports = 0
    /\ stake_data = NoStakeData
    /\ stake_result = NoInstruction

\* The instruction returns an error: the runtime keeps no account change.
StakeFails(instr, err) ==
    /\ stake_result' = Returned(instr, err)
    /\ UNCHANGED <<wallet_lamports, stake_owner, stake_lamports, stake_data>>

\* process_create_stake for a transaction signed by signer (and by the new
\* stake account), with staker as its first account.  The system program's
\* create_account needs the stake account to be new, the signature of the
\* funding account and amount + rent lamports in it.  When amount + rent
\* overflows u64 a checked build panics and a wrapping build funds the
\* account below the rent-exempt minimum, which the runtime does not keep.
CreateStake(signer, staker, amount, lock_period) ==
    /\ IF amount < MIN_STAKE_AMOUNT
       THEN StakeFails("CreateStake", "InvalidArgument")
       ELSE IF amount + RentLamports >= U64Modulus
       THEN StakeFails("CreateStake", "ArithmeticOverflow")
       ELSE IF \/ stake_owner # "system"
               \/ signer # staker
               \/ wallet_lamports[staker] < amount + RentLamports
       THEN StakeFails("CreateStake", "SystemProgramError")
       ELSE /\ wallet_lamports' = [wallet_lamports EXCEPT
                                    ![staker] = @ - (amount + RentLamports)]
            /\ stake_owner' = "stake_program"
            /\ stake_lamports' = amount + RentLamports
            /\ stake_data' = StakeAccount(staker, amount, lock_period, TRUE)
            /\ stake_result' = Returned("CreateStake", "Ok")
    /\ UNCHANGED <<now, consensusVars, nodeVars>>

StillLocked_expired(locked_until) == FALSE

\* if stake_data.locked_until > 0 { return Err(InvalidArgument) }
StillLocked(locked_until) == locked_until > 0

AmountCovered_unchecked(amount, recorded) == TRUE

\* if amount > stake_data.amount { return Err(InsufficientFunds) }
AmountCovered(amount, recorded) == ~(amount > recorded)

\* u64 subtraction and addition as a wrapping build computes them.
Sub64(a, b) == (a + U64Modulus - b) % U64Modulus
Add64(a, b) == (a + b) % U64Modulus

\* process_withdraw for a transaction signed by signer, with staker as its
\* first account and the stake account as its second; is_signer is never
\* read.  Where -= or += leaves the u64 range a checked build panics and a
\* wrapping build wraps, which the runtime rejects as an unbalanced
\* instruction.
Withdraw(signer, staker, amount) ==
    /\ IF stake_owner # "stake_program"
       THEN StakeFails("Withdraw", "IncorrectProgramId")
       ELSE IF ~stake_data.decodable
       THEN StakeFails("Withdraw", "BorshIoError")
       ELSE IF stake_data.owner # staker
       THEN StakeFails("Withdraw", "InvalidAccountData")
       ELSE IF StillLocked(stake_data.locked_until)
       THEN StakeFails("Withdraw", "InvalidArgument")
       ELSE IF ~AmountCovered(amount, stake_data.amount)
       THEN StakeFails("Withdraw", "InsufficientFunds")
       ELSE IF \/ stake_lamports < amount
               \/ wallet_lamports[staker] + amount >= U64Modulus
       THEN StakeFails("Withdraw", "ArithmeticOverflow")
       ELSE /\ stake_lamports' = Sub64(stake_lamports, amount)
            /\ wallet_lamports' = [wallet_lamports EXCEPT
                                    ![staker] = Add64(@, amount)]
            /\ stake_data' = [stake_data EXCEPT
                               !.amount = Sub64(@, amount)]
            /\ stake_result' = Returned("Withdraw", "Ok")
            /\ UNCHANGED stake_owner
    /\ UNCHANGED <<now, consensusVars, nodeVars>>

(* ------------- the registry under its write lock, call by call -------- *)
\* The registries the node can hold at time t: at most one entry per
\* address, none active after t.
Registries(t) ==
    {ps \in SUBSET [addr : Addrs, connected : BOOLEAN, last_activity : 0..t] :
       \A e1, e2 \in ps : e1.addr = e2.addr => e1 = e2}

\* The node in its accept loop, no seeds configured, the registry being ps.
NodeAccepting(ps) ==
    /\ bootstrap_nodes = <<>>
    /\ min_stake = MaxStake
    /\ ledger_balance = MaxStake
    /\ npc = "accept"
    /\ start_result = "none"
    /\ bound = TRUE
    /\ sweep_spawned = TRUE
    /\ peers = ps
    /\ seed_idx = 1
    /\ attempts = 0
    /\ counted_seed = 0
    /\ conn_fail = 0
    /\ setup_fail = 0
    /\ inserted = 0
    /\ seed_outcome = <<>>
    /\ tasks = [a \in Addrs |-> 0]
    /\ shutdown_queue = 0
    /\ shutdown_calls = 0
    /\ write_lock = NoCall
    /\ to_visit = {}
    /\ lock_order = <<>>
    /\ peers_at_start = ps

LockFree_unguarded(l) == TRUE

\* parking_lot's RwLock::write() returns only when no other guard is held.
LockFree(l) == l = NoCall

\* A handler reaches peers.write() for its insert and gets the lock.
AcquireForInsert(a) ==
    /\ LockFree(write_lock)
    /\ Len(lock_order) < MaxCalls
    /\ write_lock' = [op |-> "insert", addr |-> a]
    /\ lock_order' = Append(lock_order, [op |-> "insert", addr |-> a])
    /\ UNCHANGED <<now, consensusVars, stakeVars, shutdownVars, to_visit, peers_at_start,
                   min_stake, bootstrap_nodes, ledger_balance, npc, start_result,
                   bound, sweep_spawned, peers, seed_idx, attempts, counted_seed,
                   conn_fail, setup_fail, inserted, seed_outcome, tasks>>

\* .insert(addr, PeerInfo::new(addr)) under the guard, which is dropped at
\* the end of the statement.
InsertAndRelease ==
    /\ write_lock.op = "insert"
    /\ peers' = Insert(peers, write_lock.addr, PeerInfoNew(write_lock.addr, now))
    /\ write_lock' = NoCall
    /\ UNCHANGED <<now, consensusVars, stakeVars, shutdownVars, to_visit, lock_order,
                   peers_at_start,
                   min_stake, bootstrap_nodes, ledger_balance, npc, start_result,
                   bound, sweep_spawned, seed_idx, attempts, counted_seed,
                   conn_fail, setup_fail, inserted, seed_outcome, tasks>>

\* cleanup_disconnected_peers: let mut peers = peers.write(), and retain is
\* about to visit every entry.
AcquireForSweep ==
    /\ LockFree(write_lock)
    /\ Len(lock_order) < MaxCalls
    /\ write_lock' = [op |-> "sweep", addr |-> "none"]
    /\ lock_order' = Append(lock_order, [op |-> "sweep", addr |-> "none"])
    /\ to_visit' = peers
    /\ UNCHANGED <<now, consensusVars, stakeVars, shutdownVars, peers_at_start,
                   min_stake, bootstrap_nodes, ledger_balance, npc, start_result,
                   bound, sweep_spawned, peers, seed_idx, attempts, counted_seed,
                   conn_fail, setup_fail, inserted, seed_outcome, tasks>>

\* retain's closure is called on one more entry: kept if is_connected(),
\* removed otherwise.
RetainVisit ==
    /\ write_lock.op = "sweep"
    /\ \E e \in to_visit :
         /\ to_visit' = to_visit \ {e}
         /\ peers' = IF IsConnected(e) THEN peers ELSE peers \ {e}
    /\ UNCHANGED <<now, consensusVars, stakeVars, shutdownVars, write_lock, lock_order,
                   peers_at_start,
                   min_stake, bootstrap_nodes, ledger_balance, npc, start_result,
                   bound, sweep_spawned, seed_idx, attempts, counted_seed,
                   conn_fail, setup_fail, inserted, seed_outcome, tasks>>

\* retain has visited every entry: cleanup_disconnected_peers returns and
\* its guard is dropped.
SweepRelease ==
    /\ write_lock.op = "sweep"
    /\ to_visit = {}
    /\ write_lock' = NoCall
    /\ UNCHANGED <<now, consensusVars, stakeVars, shutdownVars, to_visit, lock_order,
                   peers_at_start,
                   min_stake, bootstrap_nodes, ledger_balance, npc, start_result,
                   bound, sweep_spawned, peers, seed_idx, attempts, counted_seed,
                   conn_fail, setup_fail, inserted, seed_outcome, tasks>>

ReceiverDropped_kept == FALSE

\* Node::new: let (shutdown_tx, _) = mpsc::channel(1): the receiver is not
\* bound to a name and is dropped at the end of that statement.
ReceiverDropped == TRUE

\* The caller drops the future of start() at one of its suspension points:
\* the listener and the locals of start() are dropped with it; the tasks it
\* spawned (the sweep loop, the connection tasks) are detached and go on.
StartDropped ==
    /\ npc \in {"bind", "connect", "sleep", "accept", "accept_backoff"}
    /\ npc' = "dropped"
    /\ bound' = FALSE
    /\ seed_idx' = 0
    /\ attempts' = 0
    /\ counted_seed' = 0
    /\ conn_fail' = 0
    /\ setup_fail' = 0
    /\ inserted' = 0
    /\ seed_outcome' = <<>>
    /\ UNCHANGED <<now, consensusVars, stakeVars, shutdownVars, lockVars,
                   min_stake, bootstrap_nodes, ledger_balance, start_result,
                   sweep_spawned, peers, tasks>>

\* shutdown(&self) cannot run while start(&mut self) borrows the node: it is
\* called before start(), after start() returned, or after its future was
\* dropped.  self.shutdown.send(()).await returns Err at once when the
\* receiver is gone, and otherwise waits for capacity in the channel; its
\* result is discarded and shutdown() returns Ok(()).
Shutdown ==
    /\ npc \in {"new", "failed", "dropped"}
    /\ shutdown_calls < MaxShutdownCalls
    /\ IF ReceiverDropped
       THEN UNCHANGED shutdown_queue
       ELSE /\ shutdown_queue < ShutdownChannelCapacity
            /\ shutdown_queue' = shutdown_queue + 1
    /\ shutdown_calls' = shutdown_calls + 1
    /\ UNCHANGED <<now, consensusVars, stakeVars, lockVars,
                   min_stake, bootstrap_nodes, ledger_balance, npc, start_result,
                   bound, sweep_spawned, peers, seed_idx, attempts, counted_seed,
                   conn_fail, setup_fail, inserted, seed_outcome, tasks>>

(* --------------------------- specifications --------------------------- *)
InitConsensus ==
    /\ now = 0
    /\ \E n \in 0..MaxValidators, timeout \in 0..MaxTimeout : ConsensusNew(n, timeout)
    /\ NodeNew(<<>>, MaxStake, 0)
    /\ StakeIdle

NextConsensus ==
    \/ Tick
    \/ ValidateBegin
    \/ ValidatorAnswers

SpecConsensus == InitConsensus /\ [][NextConsensus]_vars

\* The ConsensusManager exactly as new(timeout) builds it: validators is
\* Vec::new(), a private field that no function of the impl pushes to.
InitConsensusNew ==
    /\ now = 0
    /\ \E timeout \in 0..MaxTimeout : ConsensusNew(0, timeout)
    /\ NodeNew(<<>>, MaxStake, 0)
    /\ StakeIdle

\* With no validator the loop of get_validator_confirmations has no
\* iteration: validate_transaction runs from its call to its return.
NextConsensusNew ==
    \/ Tick
    \/ ValidateBegin

SpecConsensusNew == InitConsensusNew /\ [][NextConsensusNew]_vars

InitNode ==
    /\ now = 0
    /\ ConsensusNew(0, 0)
    /\ \E seeds \in SeedLists, balance \in 0..(MaxStake + 1) :
         NodeNew(seeds, MaxStake, balance)
    /\ StakeIdle

NextNode ==
    \/ Tick
    \/ VerifyStake
    \/ Bind
    \/ BootstrapConnect
    \/ BootstrapWake
    \/ BootstrapReturns
    \/ \E a \in Addrs : AcceptOk(a)
    \/ AcceptErr
    \/ AcceptBackoffOver
    \/ \E a \in Addrs : HandleConnection(a)
    \/ CleanupDisconnectedPeers
    \/ \E a \in Addrs : PeerDisconnects(a)

SpecNode == InitNode /\ [][NextNode]_vars

\* The runtime resumes the bootstrap phase: a connect call returns, a sleep
\* ends, the function returns.
SpecNodeFair ==
    /\ SpecNode
    /\ WF_vars(BootstrapConnect)
    /\ WF_vars(BootstrapWake)
    /\ WF_vars(BootstrapReturns)

\* The node with its caller: start() may be dropped, shutdown() called.
NextLifecycle ==
    \/ NextNode
    \/ StartDropped
    \/ Shutdown

SpecLifecycle == InitNode /\ [][NextLifecycle]_vars

\* Concurrent tasks calling insert and the sweep on a running node, each
\* call taken apart into taking the lock, its work and the release.
InitRegistry ==
    /\ now \in Times
    /\ ConsensusNew(0, 0)
    /\ \E ps \in Registries(now) : NodeAccepting(ps)
    /\ StakeIdle

NextRegistry ==
    \/ \E a \in Addrs : AcquireForInsert(a)
    \/ InsertAndRelease
    \/ AcquireForSweep
    \/ RetainVisit
    \/ SweepRelease

SpecRegistry == InitRegistry /\ [][NextRegistry]_vars

\* The stake program called on one stake account by two stakers.  At first
\* the stake account does not exist, or it was created for the program by
\* someone else with data that is no StakeAccount, or it belongs to another
\* program and holds bytes that read as a StakeAccount.
InitStake ==
    /\ now = 0
    /\ ConsensusNew(0, 0)
    /\ NodeNew(<<>>, MaxStake, 0)
    /\ wallet_lamports \in [Wallets -> 0..MaxLamports]
    /\ stake_result = NoInstruction
    /\ \/ /\ stake_owner = "system"
          /\ stake_lamports = 0
          /\ stake_data = NoStakeData
       \/ /\ stake_owner = "stake_program"
          /\ stake_lamports = RentLamports
          /\ stake_data = NoStakeData
       \/ /\ stake_owner = "other_program"
          /\ stake_lamports = MaxLamports
          /\ \E o \in Wallets, l \in LockPeriods :
               stake_data = StakeAccount(o, MaxLamports, l, TRUE)

\* process_instruction: the instruction data is a CreateStake or a Withdraw.
NextStake ==
    \/ \E signer, staker \in Wallets, amount \in Amounts, lock_period \in LockPeriods :
         CreateStake(signer, staker, amount, lock_period)
    \/ \E signer, staker \in Wallets, amount \in Amounts :
         Withdraw(signer, staker, amount)

SpecStake == InitStake /\ [][NextStake]_vars

\* The runtime wakes the sweep task when its 60 s sleep is over.
SpecSweepFair == SpecNode /\ WF_vars(CleanupDisconnectedPeers)

\* The runtime ends the one-second sleep of the accept loop.
SpecAcceptFair == SpecNode /\ WF_vars(AcceptBackoffOver)

(***************************************************************************)
(*                        Properties: ConsensusManager                     *)
(***************************************************************************)
\* The age of the transaction when validate_transaction was called, as a
\* Duration (never negative).
TxAge == IF call_time >= tx.timestamp THEN call_time - tx.timestamp ELSE 0
TxFresh == TxAge < consensus_timeout
\* The number of validators that answered affirmatively.
Affirmative == Cardinality({i \in DOMAIN asked : asked[i]})

\* C1: with a valid signature and a fresh timestamp, validate_transaction
\* accepts iff the affirmative confirmations c exceed floor(2n/3) of the n
\* validators: n=0 never accepts, n=1 needs 1, n=3 needs 3, n=4 needs 3, and a
\* rejection here is the quorum's (QuorumNotReached).
C1_QuorumRule ==
    (cpc = "done" /\ tx.sig_ok /\ TxFresh) =>
        LET n == Len(validators)
            c == Affirmative
        IN  /\ Len(asked) = n
            /\ result <=> (c > (2 * n) \div 3)
            /\ n = 0 => ~result
            /\ n = 1 => (result <=> c >= 1)
            /\ n = 3 => (result <=> c >= 3)
            /\ n = 4 => (result <=> c >= 3)
            /\ reason = IF result THEN "Accepted" ELSE "QuorumNotReached"

\* 4 validators, 3 confirmations, fresh timestamp, valid signature: accepted.
C1_Witness ==
    /\ cpc = "done" /\ tx.sig_ok /\ TxFresh
    /\ Len(validators) = 4 /\ Len(asked) = 4 /\ Affirmative = 3
    /\ result /\ reason = "Accepted"

\* C2 as claimed: a transaction whose age is at least consensus_timeout is
\* rejected with StaleTransaction whatever its signature and the validators.
C2_StaleAlwaysStaleReason ==
    (cpc = "done" /\ ~TxFresh) => (~result /\ reason = "StaleTransaction")

\* C2 as amended: a transaction whose age is at least consensus_timeout is
\* always rejected, whatever its signature and the validators; the rejection
\* is StaleTransaction when the signature is valid and BadSignature when it
\* is not (the signature is checked first).
C2_StaleRejected ==
    (cpc # "idle" /\ ~TxFresh) =>
        /\ cpc = "done"
        /\ ~result
        /\ reason = IF tx.sig_ok THEN "StaleTransaction" ELSE "BadSignature"

\* A stale transaction with a valid signature, rejected as stale although
\* there are validators to ask.
C2_Witness ==
    /\ cpc = "done" /\ ~TxFresh /\ tx.sig_ok
    /\ TxAge = consensus_timeout /\ consensus_timeout > 0
    /\ Len(validators) > 0
    /\ ~result /\ reason = "StaleTransaction"

\* C3: a transaction with an invalid signature is rejected with BadSignature
\* and no validator is asked in that evaluation, whatever the timestamp.
C3_BadSignatureFirst ==
    (cpc # "idle" /\ ~tx.sig_ok) =>
        /\ cpc = "done"
        /\ ~result
        /\ reason = "BadSignature"
        /\ asked = <<>>
        /\ confirmations = 0

\* An invalid signature on a fresh transaction with validators to ask.
C3_Witness ==
    /\ cpc = "done" /\ ~tx.sig_ok /\ TxFresh
    /\ Len(validators) > 0
    /\ reason = "BadSignature" /\ asked = <<>>

SeedFinished == counted_seed # 0 /\ counted_seed # seed_idx
InAcceptLoop == npc \in {"accept", "accept_backoff"}
HasLiveEntry(a) == \E e \in peers : e.addr = a /\ e.connected

\* C5: the listener is bound only after the stake check succeeded: with a
\* balance below min_stake, or a failed ledger query, start() returns an error
\* with no socket bound, no sweep task spawned and no bootstrap connection made.
C5_StakeBeforeBind ==
    /\ (bound \/ sweep_spawned \/ counted_seed # 0 \/ peers # {}
          \/ npc \notin {"new", "failed"})
         => (ledger_balance >= min_stake /\ start_result \notin
                {"insufficient_stake", "rpc_error"})
    /\ (ledger_balance < min_stake /\ npc # "new")
         => (npc = "failed" /\ start_result \in {"insufficient_stake", "rpc_error"})
    /\ start_result \in {"insufficient_stake", "rpc_error"}
         => (npc = "failed" /\ ~bound /\ ~sweep_spawned /\ counted_seed = 0
             /\ seed_idx = 0 /\ peers = {}
             /\ \A i \in DOMAIN seed_outcome : seed_outcome[i] = "pending")

\* start() returned the stake error with seeds configured and nothing bound.
C5_Witness ==
    /\ start_result = "insufficient_stake"
    /\ ledger_balance < min_stake
    /\ Len(bootstrap_nodes) > 0
    /\ ~bound

\* C6 as claimed: an insert for an address whose registry entry is live, from
\* an inbound or an outbound connection handler, leaves that entry unchanged.
C6_LiveEntryNeverOverwritten ==
    [][((\E a \in Addrs : HandleConnection(a)) \/ BootstrapConnect)
         => \A e \in peers : e.connected => e \in peers']_vars

\* C7: after any inbound registrations, outbound registrations and sweeps the
\* registry holds at most one PeerInfo per address.
C7_OneEntryPerAddress ==
    \A e1, e2 \in peers : e1.addr = e2.addr => e1 = e2

\* The same address was registered by two seeds, and the registry holds one
\* entry for it.
C7_Witness ==
    /\ Len(bootstrap_nodes) = 2
    /\ bootstrap_nodes[1] = bootstrap_nodes[2]
    /\ seed_outcome = <<"registered", "registered">>
    /\ \E e \in peers : e.addr = bootstrap_nodes[1] /\ e.last_activity > 0
    /\ Cardinality(peers) = 1

\* C8: a sweep removes exactly the entries whose connection-state is false:
\* after it no such entry is left, and every entry that was live before it is
\* still there, unchanged; it adds nothing.
C8_SweepRemovesExactlyDead ==
    [][CleanupDisconnectedPeers =>
         /\ \A e \in peers' : e.connected
         /\ \A e \in peers : e.connected => e \in peers'
         /\ peers' \subseteq peers]_vars

\* A registered seed is gone from the registry (only the sweep removes) while
\* a live entry of another address is there.
C8_Witness ==
    /\ sweep_spawned
    /\ \E i \in DOMAIN seed_outcome :
         /\ seed_outcome[i] = "registered"
         /\ \A e \in peers : e.addr # bootstrap_nodes[i]
    /\ \E e \in peers : e.connected

\* The counts of a seed whose loop has ended: all connects refused means
\* exactly 3 connects; no failure at all means one insert.
C9_Counts ==
    SeedFinished =>
        /\ (setup_fail = 0 /\ inserted = 0)
             => (conn_fail = 3 /\ seed_outcome[counted_seed] = "unreachable")
        /\ (conn_fail = 0 /\ setup_fail = 0)
             => (inserted = 1 /\ seed_outcome[counted_seed] = "registered")
        /\ seed_outcome[counted_seed] = "unreachable"
             => (conn_fail = 3 /\ setup_fail = 0 /\ inserted = 0)

\* C9: in the bootstrap phase a seed whose every connect is refused gets
\* exactly MAX_RECONNECT_ATTEMPTS (3) attempts and is then abandoned, and a
\* seed whose connect and setup succeed is registered at its first attempt:
\* the registry holds its live entry when it is registered.
C9_BootstrapOutcome ==
    /\ []C9_Counts
    /\ [][\A i \in DOMAIN seed_outcome \cap DOMAIN seed_outcome' :
            (seed_outcome[i] # "registered" /\ seed_outcome'[i] = "registered")
              => \E e \in peers' : /\ e.addr = bootstrap_nodes[i]
                                   /\ e.connected
                                   /\ e.last_activity = now]_vars

\* One unreachable seed, then a reachable one: the bootstrap is over, the
\* first was given up and the second is in the registry.
C9_Witness ==
    /\ npc = "bootstrapped"
    /\ Len(bootstrap_nodes) = 2
    /\ bootstrap_nodes[1] # bootstrap_nodes[2]
    /\ seed_outcome = <<"unreachable", "registered">>
    /\ counted_seed = 2 /\ conn_fail = 0 /\ setup_fail = 0 /\ inserted = 1
    /\ HasLiveEntry(bootstrap_nodes[2])
    /\ ~HasLiveEntry(bootstrap_nodes[1])

\* C10: the bootstrap phase never makes start() fail and always ends: for
\* every seed list and every pattern of connect and setup failures it ends
\* after at most MAX_RECONNECT_ATTEMPTS attempts per seed, every seed has been
\* attempted, and start() goes on to the accept loop.
C10_BootstrapTerminates ==
    /\ [](bound => start_result = "none")
    /\ [](SeedFinished =>
            /\ conn_fail + setup_fail + inserted >= 1
            /\ conn_fail + setup_fail + inserted <= MAX_RECONNECT_ATTEMPTS)
    /\ [](npc = "bootstrapped" =>
            /\ seed_idx = Len(bootstrap_nodes) + 1
            /\ \A i \in DOMAIN seed_outcome : seed_outcome[i] # "pending")
    /\ [](InAcceptLoop => seed_idx = Len(bootstrap_nodes) + 1)
    /\ (bound ~> InAcceptLoop)

\* Both seeds failed, the second one after the first was unreachable, and
\* connect_to_bootstrap_nodes is about to return Ok(()).
C10_Witness ==
    /\ npc = "bootstrapped"
    /\ start_result = "none"
    /\ seed_outcome = <<"unreachable", "abandoned">>
    /\ counted_seed = 2 /\ setup_fail > 0 /\ conn_fail > 0

\* C11: once the accept loop runs, no per-connection event ends or blocks
\* it: a connection handler that fails (or succeeds) changes neither the
\* loop nor any other connection's task, an accept error leads through the
\* one-second backoff back to accept, and at accept a connection from any
\* address is accepted and handed to a task of its own.  (The handshake
\* timeout cannot expire: handle_connection has no suspension point.)
C11_AcceptLoopSurvives ==
    /\ [][InAcceptLoop => InAcceptLoop']_vars
    /\ [][\A a \in Addrs : HandleConnection(a) =>
            /\ npc' = npc
            /\ \A b \in Addrs \ {a} : tasks'[b] = tasks[b]]_vars
    /\ [][\A a \in Addrs : AcceptOk(a) =>
            /\ tasks'[a] = tasks[a] + 1
            /\ npc' = "accept"]_vars
    /\ []((npc = "accept" /\ Pending(tasks, Addrs) < MaxPending)
            => \A a \in Addrs : ENABLED AcceptOk(a))
    /\ (npc = "accept_backoff" ~> npc = "accept")

\* No seeds.  An accept call failed after one inbound connection was handled
\* and registered and while another waits for its task to run: the loop is
\* in its backoff.
C11_Witness ==
    /\ npc = "accept_backoff"
    /\ bootstrap_nodes = <<>>
    /\ \E a \in Addrs : tasks[a] > 0
    /\ \E e \in peers : e.connected /\ tasks[e.addr] = 0

\* C12 as claimed, for the tasks start() had spawned when shutdown() was
\* called: once shutdown() has returned, no new connection task is spawned,
\* no new PeerInfo is registered and the sweep loop does no further sweep.
C12_NoNewWorkAfterShutdown ==
    [][(shutdown_calls > 0 /\ npc = "dropped") =>
         /\ \A a \in Addrs : tasks'[a] <= tasks[a]
         /\ \A e \in peers' : e.connected => e \in peers
         /\ ~(CleanupDisconnectedPeers /\ peers' # peers)]_vars

\* The state of the node apart from the count of shutdown() calls.
NodeStateButCalls ==
    <<min_stake, bootstrap_nodes, ledger_balance, npc, start_result, bound,
      sweep_spawned, peers, seed_idx, attempts, counted_seed, conn_fail,
      setup_fail, inserted, seed_outcome, tasks, shutdown_queue, lockVars>>

\* A state in which the caller can call shutdown().
ShutdownCallable == npc \in {"new", "failed", "dropped"}

\* C13: shutdown() is idempotent: whenever it can be called (before start(),
\* after start() failed, with the spawned tasks running, after an earlier
\* shutdown()) it returns Ok(()) without waiting, and it leaves the state of
\* the node as it was, so any number of calls leaves what one call leaves.
C13_ShutdownIdempotent ==
    /\ [][Shutdown => UNCHANGED NodeStateButCalls]_vars
    /\ []((ShutdownCallable /\ shutdown_calls < MaxShutdownCalls)
            => ENABLED Shutdown)

\* shutdown() has returned twice while the sweep task and a connection task
\* spawned by start() are still there.
C13_Witness ==
    /\ shutdown_calls >= 2
    /\ npc = "dropped"
    /\ sweep_spawned
    /\ \E a \in Addrs : tasks[a] > 0

\* An attempt of the bootstrap connector for the current seed has just failed
\* at the connect or in the setup.
OutboundAttemptFailed ==
    /\ BootstrapConnect
    /\ \/ conn_fail' # Counted(conn_fail)
       \/ setup_fail' # Counted(setup_fail)

\* C14: a PeerInfo is added only after the connection setup completed: an
\* inbound or outbound connection whose setup failed at a socket option or
\* at the peer address leaves the registry as it was, and every new live
\* entry comes from a handler whose setup succeeded, under the address of
\* that connection.  (No handler is abandoned on timeout: handle_connection
\* has no suspension point.)
C14_InsertAfterSetup ==
    /\ [][\A a \in Addrs, r \in SetupOutcomes \ {"ok"} :
            HandleConnectionGives(a, r) => peers' = peers]_vars
    /\ [][OutboundAttemptFailed => peers' = peers]_vars
    /\ [][\A e \in peers' \ peers : e.connected =>
            \/ HandleConnectionGives(e.addr, "ok")
            \/ /\ BootstrapConnect
               /\ inserted' = Counted(inserted) + 1
               /\ e.addr = bootstrap_nodes[seed_idx]]_vars

\* The setup of the outbound connection to the only seed has failed twice,
\* the connector is in its backoff and the registry is empty.
C14_Witness ==
    /\ Len(bootstrap_nodes) = 1
    /\ counted_seed = seed_idx
    /\ setup_fail = 2
    /\ npc = "sleep"
    /\ peers = {}

\* C15 as claimed: while the bootstrap connector is suspended in a connect
\* call or in its retry backoff, an inbound connection can be accepted.
C15_InboundDuringBootstrap ==
    npc \in {"connect", "sleep"} => \E a \in Addrs : ENABLED AcceptOk(a)

\* C16: when binding the listener fails, start() returns the error with
\* nothing running: no listener, no sweep task, no bootstrap connection
\* attempted, no connection task, the registry empty; and nothing changes
\* afterwards.
C16_BindFailureLeavesNothing ==
    /\ [](start_result = "bind_error" =>
            /\ npc = "failed"
            /\ ~bound
            /\ ~sweep_spawned
            /\ seed_idx = 0 /\ counted_seed = 0
            /\ \A i \in DOMAIN seed_outcome : seed_outcome[i] = "pending"
            /\ \A a \in Addrs : tasks[a] = 0
            /\ peers = {}
            /\ ~ENABLED CleanupDisconnectedPeers)
    /\ [][start_result = "bind_error" => UNCHANGED nodeVars]_vars

\* The stake was sufficient, seeds are configured, and the bind failed.
C16_Witness ==
    /\ start_result = "bind_error"
    /\ ledger_balance >= min_stake
    /\ Len(bootstrap_nodes) > 0
    /\ now > 0

\* The registry holds an entry of a whose connection-state is false (it
\* holds at most one entry of a, live or not).
HasDeadEntry(a) == \E e \in peers : e.addr = a /\ ~e.connected

\* C17: the sweep task, once spawned, stays for the lifetime of the node and
\* under fair scheduling every registry entry whose connection-state is false
\* is eventually removed, whatever registrations happen meanwhile and also
\* while the bootstrap phase is retrying.
C17_DeadEntriesEventuallySwept ==
    /\ [][sweep_spawned => sweep_spawned']_vars
    /\ \A a \in Addrs : HasDeadEntry(a) ~> ~HasDeadEntry(a)

\* The bootstrap phase is retrying its second seed; the first seed was
\* registered, its connection ended and the sweep has removed its entry.
C17_Witness ==
    /\ npc = "sleep"
    /\ seed_idx = 2
    /\ seed_outcome[1] = "registered"
    /\ peers = {}

\* One call applied to the registry ps as a whole.
ApplyCall(ps, c) ==
    IF c.op = "sweep" THEN Retain(ps)
    ELSE Insert(ps, c.addr, PeerInfoNew(c.addr, now))

\* The calls of the sequence cs applied to ps one at a time, in order.
RECURSIVE ApplyCalls(_, _)
ApplyCalls(ps, cs) ==
    IF cs = <<>> THEN ps ELSE ApplyCalls(ApplyCall(ps, Head(cs)), Tail(cs))

\* The calls before the last one that took the lock.
CallsBeforeLast == SubSeq(lock_order, 1, Len(lock_order) - 1)

\* C18: registry mutations are atomic per call: whenever the write lock is
\* free, which is when another task can look at the registry, the registry
\* is the result of the insert and sweep calls made so far executed one at
\* a time in the order they took the lock; while a call holds the lock no
\* other call takes it, and an insert starts from the result of all earlier
\* calls.
C18_MutationsAtomic ==
    /\ write_lock = NoCall => peers = ApplyCalls(peers_at_start, lock_order)
    /\ write_lock # NoCall =>
         /\ lock_order # <<>>
         /\ write_lock = lock_order[Len(lock_order)]
         /\ ~ENABLED AcquireForSweep
         /\ \A a \in Addrs : ~ENABLED AcquireForInsert(a)
         /\ write_lock.op = "insert"
              => peers = ApplyCalls(peers_at_start, CallsBeforeLast)
         /\ write_lock.op = "sweep"
              => /\ to_visit \subseteq peers
                 /\ Retain(peers) = ApplyCalls(peers_at_start, lock_order)

\* An insert, a sweep that removed an entry, and an insert for an address
\* the sweep had removed: the lock is free again.
C18_Witness ==
    /\ write_lock = NoCall
    /\ Len(lock_order) >= 3
    /\ lock_order[1].op = "insert"
    /\ lock_order[2].op = "sweep"
    /\ lock_order[3].op = "insert"
    /\ \E e \in peers_at_start : /\ ~e.connected
                                  /\ e.addr = lock_order[3].addr
                                  /\ e.addr # lock_order[1].addr
    /\ Cardinality(peers) = 2

\* C19: in an evaluation that passed the signature and freshness checks
\* every validator is asked exactly once, a rejection does not end the
\* asking early, and the tally is the number of affirmative answers, which
\* does not depend on where in the order they came.
C19_EveryValidatorAsked ==
    /\ []((cpc # "idle" /\ tx.sig_ok /\ TxFresh) =>
            /\ confirmations = Affirmative
            /\ cpc = "asking" => Len(asked) < Len(validators)
            /\ cpc = "done" => Len(asked) = Len(validators))
    /\ [][ValidatorAnswers =>
            /\ Len(asked') = Len(asked) + 1
            /\ SubSeq(asked', 1, Len(asked)) = asked
            /\ confirmations' =
                 confirmations + (IF asked'[Len(asked')] THEN 1 ELSE 0)]_vars

\* Three validators: the first rejected, the other two were still asked and
\* confirmed; the tally is 2.
C19_Witness ==
    /\ cpc = "done" /\ tx.sig_ok /\ TxFresh
    /\ asked = <<FALSE, TRUE, TRUE>>
    /\ Len(validators) = 3
    /\ confirmations = 2

\* C20: per seed the bootstrap connector makes at most
\* MAX_RECONNECT_ATTEMPTS (3) connection attempts in all, a failed connect
\* and a failed setup each counting as one; after the first attempt whose
\* connect and setup both succeed the seed's loop is over: the seed is
\* inserted once and no further connect to it is made.
C20_AttemptsPerSeed ==
    /\ [](counted_seed # 0 =>
            /\ conn_fail + setup_fail + inserted <= MAX_RECONNECT_ATTEMPTS
            /\ inserted <= 1
            /\ inserted = 1 => /\ SeedFinished
                               /\ seed_outcome[counted_seed] = "registered")
    /\ []((counted_seed # 0 /\ counted_seed = seed_idx)
            => attempts = conn_fail + setup_fail)
    /\ [][BootstrapConnect =>
            /\ seed_outcome[seed_idx] = "pending"
            /\ Counted(inserted) = 0
            /\ Counted(conn_fail) + Counted(setup_fail) = attempts
            /\ attempts < MAX_RECONNECT_ATTEMPTS]_vars

\* A seed whose first connect failed, whose second connection failed in the
\* setup and whose third attempt succeeded: registered, its loop is over.
C20_Witness ==
    /\ SeedFinished
    /\ conn_fail = 1 /\ setup_fail = 1 /\ inserted = 1
    /\ seed_outcome[counted_seed] = "registered"
    /\ HasLiveEntry(bootstrap_nodes[counted_seed])

\* C21: a ConsensusManager built by new() has an empty validator set, which
\* nothing changes, so no validator is ever asked and validate_transaction
\* never returns accepted, for any signature validity and timestamp and
\* after any sequence of calls.
C21_NewNeverAccepts ==
    /\ validators = <<>>
    /\ ~ENABLED ValidatorAnswers
    /\ asked = <<>> /\ confirmations = 0
    /\ ~result
    /\ reason # "Accepted"
    /\ (cpc = "done" /\ tx.sig_ok /\ TxFresh) => reason = "QuorumNotReached"

\* A later call, on a transaction with a valid signature and a fresh
\* timestamp, ended in a rejection for want of a quorum.
C21_Witness ==
    /\ cpc = "done"
    /\ call_time > 0
    /\ tx.sig_ok /\ TxFresh
    /\ validators = <<>>
    /\ ~result /\ reason = "QuorumNotReached"

(***************************************************************************)
(*                        Properties: stake program                        *)
(***************************************************************************)
\* What a Withdraw of amount a with staker account k has done, read off its
\* step: on success the four checks held before it and exactly a moved from
\* the stake account, and from its recorded amount, to k; on an error
\* nothing changed.
WithdrawEffect(k, a) ==
    IF stake_result'.res = "Ok"
    THEN /\ stake_owner = "stake_program"
         /\ stake_data.decodable
         /\ stake_data.owner = k
         /\ stake_data.locked_until <= 0
         /\ a <= stake_data.amount
         /\ a <= stake_lamports
         /\ stake_data' = [stake_data EXCEPT !.amount = stake_data.amount - a]
         /\ stake_lamports' = stake_lamports - a
         /\ wallet_lamports' =
              [wallet_lamports EXCEPT ![k] = wallet_lamports[k] + a]
         /\ stake_owner' = stake_owner
    ELSE /\ stake_result'.res # "ArithmeticOverflow"
         /\ UNCHANGED <<wallet_lamports, stake_owner, stake_lamports, stake_data>>

\* C22 as claimed: Withdraw conserves funds and never overdraws, and a
\* successful withdraw requires, among the four checks, that the caller (the
\* signer of the transaction) is the recorded owner.
C22_WithdrawByCallerOnly ==
    [][stake_result'.instr = "Withdraw" =>
         \A c, k \in Wallets, a \in Amounts :
           Withdraw(c, k, a) =>
             /\ WithdrawEffect(k, a)
             /\ stake_result'.res = "Ok" => c = stake_data.owner]_vars

\* C22 as amended: Withdraw conserves funds and never overdraws: a
\* successful withdraw of a requires the stake account to be owned by the
\* program, the staker account passed to be the recorded owner (whoever
\* signed), locked_until <= 0 and a <= the recorded amount, and moves
\* exactly a from the stake account and its recorded amount to the staker;
\* a failed withdraw changes nothing.  The recorded amount of a stake
\* account never exceeds its lamports.
C22_WithdrawConserves ==
    /\ [][stake_result'.instr = "Withdraw" =>
            \A k \in Wallets, a \in Amounts :
              (\E c \in Wallets : Withdraw(c, k, a)) => WithdrawEffect(k, a)]_vars
    /\ []((stake_owner = "stake_program" /\ stake_data.decodable)
            => stake_data.amount <= stake_lamports)

\* A stake was created and part of it withdrawn: less than the minimum
\* stake is left recorded, and the rent on top of it in the account.
C22_Witness ==
    /\ stake_result = Returned("Withdraw", "Ok")
    /\ stake_owner = "stake_program"
    /\ stake_data.decodable
    /\ stake_data.amount > 0
    /\ stake_data.amount < MIN_STAKE_AMOUNT
    /\ stake_lamports = stake_data.amount + RentLamports
    /\ wallet_lamports[stake_data.owner] > 0

\* A stake account written by CreateStake whose locked_until is positive.
LockedStake ==
    /\ stake_owner = "stake_program"
    /\ stake_data.decodable
    /\ stake_data.locked_until > 0

\* CreateStake stores lock_period as locked_until, and no instruction
\* changes the locked_until of a stake account afterwards.
LockedUntilFixed ==
    /\ [][stake_result' = Returned("CreateStake", "Ok") =>
            \A c, k \in Wallets, a \in Amounts, lp \in LockPeriods :
              CreateStake(c, k, a, lp) => stake_data'.locked_until = lp]_vars
    /\ [][(stake_owner = "stake_program" /\ stake_data.decodable) =>
            /\ stake_owner' = stake_owner
            /\ stake_data'.decodable
            /\ stake_data'.locked_until = stake_data.locked_until]_vars
    /\ [][LockedStake => UNCHANGED <<stake_lamports, stake_data>>]_vars

\* C23 as claimed: locked_until is the lock_period of CreateStake for ever,
\* and every Withdraw on a stake created with lock_period > 0 fails with
\* InvalidArgument.
C23_LockedFailsInvalidArgument ==
    /\ LockedUntilFixed
    /\ [][(LockedStake /\ stake_result'.instr = "Withdraw") =>
            \A c, k \in Wallets, a \in Amounts :
              Withdraw(c, k, a)
                => stake_result' = Returned("Withdraw", "InvalidArgument")]_vars

\* C23 as amended: locked_until is the lock_period of CreateStake for ever,
\* and every Withdraw on a stake created with lock_period > 0 fails, for any
\* amount and at any later point: with InvalidArgument when the staker
\* account passed is the recorded owner, with InvalidAccountData when it is
\* not (the owner is compared first).  Such a stake is never withdrawn.
C23_LockedNeverWithdrawn ==
    /\ LockedUntilFixed
    /\ [][(LockedStake /\ stake_result'.instr = "Withdraw") =>
            \A k \in Wallets, a \in Amounts :
              (\E c \in Wallets : Withdraw(c, k, a)) =>
              /\ stake_result' = Returned("Withdraw",
                                    IF k = stake_data.owner
                                    THEN "InvalidArgument"
                                    ELSE "InvalidAccountData")
              /\ UNCHANGED <<wallet_lamports, stake_owner, stake_lamports,
                             stake_data>>]_vars

\* A stake created with a positive lock_period; its owner's Withdraw has
\* just been refused with InvalidArgument, and the stake is whole.
C23_Witness ==
    /\ LockedStake
    /\ stake_result = Returned("Withdraw", "InvalidArgument")
    /\ stake_data.amount >= MIN_STAKE_AMOUNT
    /\ stake_lamports = stake_data.amount + RentLamports

=============================================================================
